---- MODULE Spec2Model ----
(***************************************************************************)
(* Model of the multi-stage colour transform engine of lcms-prime          *)
(* (src/src/lut.rs): Stage, its builtin factories and evaluation kernels,  *)
(* Pipeline with its chain mutations, and the two double-buffered          *)
(* evaluation loops lut_eval_16 and lut_eval_float.                        *)
(*                                                                         *)
(* Slices and vectors are sequences: the code's index i is position i+1.   *)
(* An f32/f64 sample is an integer number of ticks, one tick being         *)
(* 1/(Res*65535), so that 1.0 is Res*65535 ticks and a 16 bit word w is    *)
(* the float w*Res.  A panic is an outcome of its own (the call unwinds).  *)
(***************************************************************************)
EXTENDS Integers, Sequences, FiniteSets, TLC

VARIABLES pipes, ret, calls, storage

vars == <<pipes, ret, calls, storage>>

\* ---------------------------------------------------------------- bounds
\* Longest chain built in the pipeline "lut" ("other" holds at most one stage).
MaxStages == 2
\* Longest chain evaluated by a single caller / by concurrent callers.
MaxEvalStages == 2
MaxConcStages == 1
\* Length of the short input buffer and of the long output buffer of a call.
MaxIn == 2
MaxOut == 2
\* Ticks per 1/65535: the resolution of the modelled floats.
Res == 2

\* ------------------------------------------------------------- constants
\* alpha::MAX_CHANNELS (imported at lut.rs:1; the value is Little CMS's).
MAX_CHANNELS == 16
MAX_STAGE_CHANNELS == 128
\* The 65535. of from_float_to_16 and from_16_to_float.
WORD_MAX == 65535

\* 1.0 in ticks.
One == Res * WORD_MAX

\* What the caller's output buffer holds before an evaluation.
OutInit == 0 - 77

\* Option<T>
None == [some |-> FALSE, v |-> <<>>]
Some(x) == [some |-> TRUE, v |-> x]

\* ------------------------------------------------------------- StageData
DataNone ==
    [kind |-> "None", matrix |-> <<>>, offset |-> None, curves |-> <<>>]
DataMatrix(matrix, offset) ==
    [kind |-> "Matrix", matrix |-> matrix, offset |-> offset, curves |-> <<>>]
DataCurves(curves) ==
    [kind |-> "Curves", matrix |-> <<>>, offset |-> None, curves |-> curves]

\* ----------------------------------------------------------------- Stage
Stage_alloc(ty, input_channels, output_channels, eval_fn, data) ==
    [ty |-> ty, implements |-> ty,
     input_channels |-> input_channels, output_channels |-> output_channels,
     eval_fn |-> eval_fn, data |-> data]

\* ToneCurve::new_gamma(1.): the identity curve.  "inverted" is a second,
\* caller-supplied curve (x |-> 1 - x).
GammaOne == "gamma1"
Inverted == "inverted"

ToneCurve_eval_float(curve, x) ==
    IF curve = GammaOne THEN x ELSE One - x

new_tone_curves(channels, curves) ==
    LET cs == IF curves.some THEN curves.v
              ELSE [i \in 1..channels |-> GammaOne]
    IN Stage_alloc("CurveSet", channels, channels, "evaluate_curves",
                   DataCurves(cs))

new_matrix(rows, cols, matrix, offset) ==
    Stage_alloc("Matrix", cols, rows, "evaluate_matrix",
                DataMatrix(matrix, offset))

new_xyz_to_lab ==
    Stage_alloc("XYZ2Lab", 3, 3, "evaluate_xyz_to_lab", DataNone)

new_lab_to_xyz ==
    Stage_alloc("Lab2XYZ", 3, 3, "evaluate_lab_to_xyz", DataNone)

new_clip_negatives(channels) ==
    Stage_alloc("ClipNegatives", channels, channels, "clipper", DataNone)

new_identity(channels) ==
    Stage_alloc("Identity", channels, channels, "evaluate_identity", DataNone)

new_identity_curves(channels) ==
    [new_tone_curves(channels, None) EXCEPT !.implements = "Identity"]

\* ------------------------------------------------------ slice conversions
Min(a, b) == IF a < b THEN a ELSE b

\* d += 0.5; d <= 0 -> 0; d >= 65535 -> 0xffff; else floor(d), for d = h/Res.
quick_saturate_word(h) ==
    IF 2 * h + Res <= 0 THEN 0
    ELSE IF 2 * h + Res >= 2 * Res * WORD_MAX THEN WORD_MAX
    ELSE (2 * h + Res) \div (2 * Res)

Panic == [panic |-> TRUE, out |-> <<>>]
Ok(out) == [panic |-> FALSE, out |-> out]

\* output[i] = quick_saturate_word(input[i] * 65535.) for i in 0..n; an index
\* past either slice panics after the entries before it were written.
from_float_to_16(input, output, n) ==
    LET m == Min(n, Min(Len(input), Len(output)))
    IN [panic |-> n > m,
        out |-> [i \in 1..Len(output) |->
                    IF i <= m THEN quick_saturate_word(input[i])
                    ELSE output[i]]]

\* output[i] = input[i] / 65535. for i in 0..input.len()
from_16_to_float(input, output) ==
    IF Len(input) > Len(output) THEN Panic
    ELSE Ok([i \in 1..Len(output) |->
                IF i <= Len(input) THEN input[i] * Res ELSE output[i]])

copy_float_slice(src, dest) ==
    IF Len(src) > Len(dest)
    THEN [i \in 1..Len(dest) |-> src[i]]
    ELSE [i \in 1..Len(dest) |-> IF i <= Len(src) THEN src[i] ELSE dest[i]]

\* ---------------------------------------------------- evaluation kernels
RECURSIVE MatrixRow(_, _, _, _, _)
\* tmp after the inner loop has run for columns j..input_channels-1
MatrixRow(input, matrix, ic, i, j) ==
    IF j >= ic THEN 0
    ELSE input[j + 1] * matrix[i * ic + j + 1]
         + MatrixRow(input, matrix, ic, i, j + 1)

evaluate_matrix(input, output, stage) ==
    LET d == stage.data
        ic == stage.input_channels
        oc == stage.output_channels
        bad(i) == \/ \E j \in 0..(ic - 1) :
                        j >= Len(input) \/ i * ic + j >= Len(d.matrix)
                  \/ d.offset.some /\ i >= Len(d.offset.v)
                  \/ i >= Len(output)
    IN IF d.kind # "Matrix" THEN Panic
       ELSE IF \E i \in 0..(oc - 1) : bad(i) THEN Panic
       ELSE Ok([i \in 1..Len(output) |->
                  IF i <= oc
                  THEN MatrixRow(input, d.matrix, ic, i - 1, 0)
                       + (IF d.offset.some THEN d.offset.v[i] ELSE 0)
                  ELSE output[i]])

evaluate_curves(input, output, stage) ==
    LET d == stage.data
        n == Len(d.curves)
    IN IF d.kind # "Curves" THEN Panic
       ELSE IF n > Len(input) \/ n > Len(output) THEN Panic
       ELSE Ok([i \in 1..Len(output) |->
                  IF i <= n THEN ToneCurve_eval_float(d.curves[i], input[i])
                  ELSE output[i]])

\* pcs::xyz_to_lab and pcs::lab_to_xyz with the 0..1 encodings around them:
\* two mutually inverse maps of three channels.
XyzToLab(x, y, z) == <<y, x - y, y - z>>
LabToXyz(l, a, b) == <<a + l, l, l - b>>

evaluate_xyz_to_lab(input, output, stage) ==
    IF Len(input) < 3 \/ Len(output) < 3 THEN Panic
    ELSE LET lab == XyzToLab(input[1], input[2], input[3])
         IN Ok([i \in 1..Len(output) |-> IF i <= 3 THEN lab[i] ELSE output[i]])

evaluate_lab_to_xyz(input, output, stage) ==
    IF Len(input) < 3 \/ Len(output) < 3 THEN Panic
    ELSE LET xyz == LabToXyz(input[1], input[2], input[3])
         IN Ok([i \in 1..Len(output) |-> IF i <= 3 THEN xyz[i] ELSE output[i]])

clipper(input, output, stage) ==
    LET n == stage.input_channels
    IN IF n > Len(input) \/ n > Len(output) THEN Panic
       ELSE Ok([i \in 1..Len(output) |->
                  IF i <= n THEN (IF input[i] > 0 THEN input[i] ELSE 0)
                  ELSE output[i]])

evaluate_identity(input, output, stage) ==
    Ok(copy_float_slice(input, output))

\* (stage.eval_fn)(input, output, &stage)
StageEvalFn(stage, input, output) ==
    CASE stage.eval_fn = "evaluate_matrix" -> evaluate_matrix(input, output, stage)
      [] stage.eval_fn = "evaluate_curves" -> evaluate_curves(input, output, stage)
      [] stage.eval_fn = "evaluate_xyz_to_lab" -> evaluate_xyz_to_lab(input, output, stage)
      [] stage.eval_fn = "evaluate_lab_to_xyz" -> evaluate_lab_to_xyz(input, output, stage)
      [] stage.eval_fn = "clipper" -> clipper(input, output, stage)
      [] OTHER -> evaluate_identity(input, output, stage)

\* -------------------------------------------------------------- Pipeline
\* if !self.elements.is_empty() { input from first, output from last }
bless(lut) ==
    IF lut.elements # <<>>
    THEN [lut EXCEPT
            !.input_channels = lut.elements[1].input_channels,
            !.output_channels = lut.elements[Len(lut.elements)].output_channels]
    ELSE lut

\* The pipeline Pipeline::alloc returns when it does not panic.
Pipeline_alloc(input_channels, output_channels) ==
    bless([elements |-> <<>>,
           input_channels |-> input_channels,
           output_channels |-> output_channels,
           eval_16_fn |-> "lut_eval_16",
           eval_float_fn |-> "lut_eval_float",
           save_as_8_bits |-> FALSE])

\* Mutant: the bound itself is accepted.
alloc_panics_above(input_channels, output_channels) ==
    input_channels > MAX_CHANNELS \/ output_channels > MAX_CHANNELS

\* The guard of Pipeline::alloc: panic!("Pipeline: too many channels")
alloc_panics(input_channels, output_channels) ==
    input_channels >= MAX_CHANNELS \/ output_channels >= MAX_CHANNELS

\* Mutant: the cached counts are not recomputed after the insertion.
prepend_stage_unblessed(lut, stage) ==
    [lut EXCEPT !.elements = <<stage>> \o lut.elements]

prepend_stage(lut, stage) ==
    bless([lut EXCEPT !.elements = <<stage>> \o lut.elements])

append_stage(lut, stage) ==
    bless([lut EXCEPT !.elements = Append(lut.elements, stage)])

\* Mutant: two empty pipelines do not hand over the channel counts.
concat_no_inherit(lut, other) ==
    bless([lut EXCEPT !.elements = lut.elements \o other.elements])

concat(lut, other) ==
    LET inherited ==
            IF lut.elements = <<>> /\ other.elements = <<>>
            THEN [lut EXCEPT !.input_channels = other.input_channels,
                             !.output_channels = other.output_channels]
            ELSE lut
    IN bless([inherited EXCEPT !.elements = inherited.elements \o other.elements])

\* ----------------------------------------------------- enumerated inputs
\* The two pipelines of the model: concat is lut.concat(&other) or the reverse.
PipeIds == {"lut", "other"}

Limit(p) == IF p = "lut" THEN MaxStages ELSE 1

\* Channel counts handed to Pipeline::alloc: the placeholder, the largest
\* accepted count, and the first two rejected ones.
AllocArgs == {0, MAX_CHANNELS - 1, MAX_CHANNELS, MAX_CHANNELS + 1}

Swap2 == <<0, 1, 1, 0>>

\* Calls of the builtin factories.
Catalog ==
    {new_identity(1), new_identity_curves(1)}
    \cup {new_clip_negatives(c) : c \in {2, MAX_STAGE_CHANNELS + 1}}
    \cup {new_tone_curves(2, Some(cs)) : cs \in {<<Inverted>>, <<Inverted, GammaOne>>}}
    \cup {new_matrix(2, 2, Swap2, None),
          new_matrix(1, 2, <<1, 1>>, Some(<<0 - 9>>)),
          new_matrix(2, 2, <<1>>, None)}
    \cup {new_xyz_to_lab, new_lab_to_xyz}

\* ------------------------------------------------------------ call record
RetNone == [op |-> "none", p |-> "lut", ic |-> 0, oc |-> 0, panic |-> FALSE]
RetOp(op, p) == [op |-> op, p |-> p, ic |-> 0, oc |-> 0, panic |-> FALSE]

Has(p) == pipes[p] # <<>>
P(p) == pipes[p][1]

\* Evaluation frames (defined with the evaluation loops below).
Callers == {1, 2}
Cap == MAX_STAGE_CHANNELS
ZeroBuf == [i \in 1..Cap |-> 0]
\* The storage of a call that has not been entered yet.
NoFrame == <<<<>>, <<>>>>
IdleCall == [pc |-> "idle", kind |-> "float", input |-> <<>>, output |-> <<>>,
             phase |-> 0, k |-> 0]

\* No evaluation borrows the pipelines (a mutation needs &mut self).
NoCallInFlight == \A e \in Callers : calls[e].pc = "idle"

\* --------------------------------------------------------- build actions
Alloc(p, ic, oc) ==
    /\ ~Has(p)
    /\ NoCallInFlight
    /\ IF alloc_panics(ic, oc)
       THEN pipes' = pipes
       ELSE pipes' = [pipes EXCEPT ![p] = <<Pipeline_alloc(ic, oc)>>]
    /\ ret' = [op |-> "alloc", p |-> p, ic |-> ic, oc |-> oc,
               panic |-> alloc_panics(ic, oc)]
    /\ UNCHANGED <<calls, storage>>

PrependStage(p, stage) ==
    /\ Has(p)
    /\ NoCallInFlight
    /\ Len(P(p).elements) < Limit(p)
    /\ pipes' = [pipes EXCEPT ![p] = <<prepend_stage(P(p), stage)>>]
    /\ ret' = RetOp("prepend_stage", p)
    /\ UNCHANGED <<calls, storage>>

AppendStage(p, stage) ==
    /\ Has(p)
    /\ NoCallInFlight
    /\ Len(P(p).elements) < Limit(p)
    /\ pipes' = [pipes EXCEPT ![p] = <<append_stage(P(p), stage)>>]
    /\ ret' = RetOp("append_stage", p)
    /\ UNCHANGED <<calls, storage>>

Concat(p, q) ==
    /\ p # q
    /\ Has(p) /\ Has(q)
    /\ NoCallInFlight
    /\ Len(P(p).elements) + Len(P(q).elements) <= Limit(p)
    /\ pipes' = [pipes EXCEPT ![p] = <<concat(P(p), P(q))>>]
    /\ ret' = RetOp("concat", p)
    /\ UNCHANGED <<calls, storage>>

Init ==
    /\ pipes = [p \in PipeIds |-> <<>>]
    /\ ret = RetNone
    /\ calls = [e \in Callers |-> IdleCall]
    /\ storage = [e \in Callers |-> NoFrame]

Next ==
    \/ \E p \in PipeIds, ic \in AllocArgs, oc \in AllocArgs : Alloc(p, ic, oc)
    \/ \E p \in PipeIds, stage \in Catalog : PrependStage(p, stage)
    \/ \E p \in PipeIds, stage \in Catalog : AppendStage(p, stage)
    \/ \E p \in PipeIds, q \in PipeIds : Concat(p, q)

Spec == Init /\ [][Next]_vars

\* ------------------------------------------------------------ evaluation
\* let mut storage = [[0.; MAX_STAGE_CHANNELS], [0.; MAX_STAGE_CHANNELS]]:
\* a local of the call, so every call e has a frame of its own.
\* Mutant: the scratch storage is state shared by all calls.
SharedScratch(e) == 1

ScratchOf(e) == e

\* Mutant: the buffers are never swapped.
SamePhase(phase) == phase

\* let next_phase = phase ^ 1
NextPhase(phase) == IF phase % 2 = 0 THEN phase + 1 ELSE phase - 1

\* Sample buffers of the callers: short ones, and one longer than the scratch
\* capacity.
FloatAt(i) == IF i % 2 = 1 THEN 4 * i + 1 ELSE 0 - 3 * i
WordAt(i) == IF i % 2 = 1 THEN WORD_MAX - (i - 1) ELSE i

FloatInput(n) == [i \in 1..n |-> IF n > Cap THEN i ELSE FloatAt(i)]
WordInput(n) == [i \in 1..n |-> IF n > Cap THEN i ELSE WordAt(i)]

\* Buffer lengths of a single caller, and of the concurrent callers.
InLens == {0, MaxIn, Cap + 1}
OutLens == {0, 1, MaxOut}
ConcInLens == {1, MaxIn}
ConcOutLens == {MaxOut}

OutBuf(n) == [i \in 1..n |-> OutInit]

\* The pipeline under evaluation.
Lut == P("lut")

\* lut_eval_float / lut_eval_16 up to the loop: phase = 0, zeroed storage,
\* the input copied (float) or decoded (16 bit) into storage[0].
Start(e, inlens, outlens) ==
    /\ Has("lut")
    /\ calls[e].pc = "idle"
    /\ \E kind \in {"float", "16"}, inlen \in inlens, outlen \in outlens :
            LET input == IF kind = "float" THEN FloatInput(inlen)
                         ELSE WordInput(inlen)
                r == IF kind = "float"
                     THEN Ok(copy_float_slice(input, ZeroBuf))
                     ELSE from_16_to_float(input, ZeroBuf)
                call == [pc |-> IF r.panic THEN "panicked" ELSE "run",
                         kind |-> kind, input |-> input,
                         output |-> OutBuf(outlen), phase |-> 0, k |-> 0]
            IN /\ calls' = [calls EXCEPT ![e] = call]
               /\ storage' = [storage EXCEPT ![ScratchOf(e)] =
                                <<IF r.panic THEN ZeroBuf ELSE r.out, ZeroBuf>>]
    /\ UNCHANGED <<pipes, ret>>

\* One iteration of `for stage in &pipeline.elements`.  The &mut to
\* storage[next_phase] is cast from a shared reference; the slot is disjoint
\* from storage[phase], which the stage reads, and both pointers are handed to
\* an indirect call, so the write lands in storage[next_phase] and nowhere else.
Step(e) ==
    LET c == calls[e]
        stage == Lut.elements[c.k + 1]
        next_phase == NextPhase(c.phase)
        st == storage[ScratchOf(e)]
        r == StageEvalFn(stage, st[c.phase + 1], st[next_phase + 1])
    IN /\ c.pc = "run"
       /\ c.k < Len(Lut.elements)
       /\ IF r.panic
          THEN /\ calls' = [calls EXCEPT ![e].pc = "panicked"]
               /\ storage' = storage
          ELSE /\ calls' = [calls EXCEPT ![e].phase = next_phase,
                                         ![e].k = c.k + 1]
               /\ storage' = [storage EXCEPT
                                ![ScratchOf(e)][next_phase + 1] = r.out]
       /\ UNCHANGED <<pipes, ret>>

\* After the loop: the final buffer goes to the caller's output.
Finish(e) ==
    LET c == calls[e]
        final == storage[ScratchOf(e)][c.phase + 1]
        r == IF c.kind = "float"
             THEN Ok(copy_float_slice(final, c.output))
             ELSE from_float_to_16(final, c.output, Lut.output_channels)
    IN /\ c.pc = "run"
       /\ c.k = Len(Lut.elements)
       /\ calls' = [calls EXCEPT
                      ![e].pc = IF r.panic THEN "panicked" ELSE "done",
                      ![e].output = r.out]
       /\ UNCHANGED <<pipes, ret, storage>>

\* The call returns (or has unwound): its frame is dead, the memory keeps
\* what was written to it.
Return(e) ==
    /\ calls[e].pc \in {"done", "panicked"}
    /\ calls' = [calls EXCEPT ![e] = IdleCall]
    /\ UNCHANGED <<pipes, ret, storage>>

\* Pipelines built by alloc and at most n append_stage calls.
RECURSIVE Built(_)
Built(n) ==
    IF n = 0
    THEN {Pipeline_alloc(ic, oc) :
            ic \in {a \in AllocArgs : a < MAX_CHANNELS},
            oc \in {a \in AllocArgs : a < MAX_CHANNELS}}
    ELSE LET prev == Built(n - 1)
         IN prev \cup {append_stage(lut, stage) : lut \in prev, stage \in Catalog}

InitWith(lut) ==
    /\ pipes = [p \in PipeIds |-> IF p = "lut" THEN <<lut>> ELSE <<>>]
    /\ ret = RetOp("append_stage", "lut")
    /\ calls = [e \in Callers |-> IdleCall]
    /\ storage = [e \in Callers |-> NoFrame]

\* One caller evaluating a built pipeline.
InitEval == \E lut \in Built(MaxEvalStages) : InitWith(lut)

NextEval == Start(1, InLens, OutLens) \/ Step(1) \/ Finish(1) \/ Return(1)

SpecEval == InitEval /\ [][NextEval]_vars

\* Several callers evaluating the same pipeline, interleaved stage by stage.
ConcCatalog ==
    {new_identity(1), new_matrix(2, 2, Swap2, None), new_clip_negatives(2),
     new_tone_curves(2, Some(<<Inverted>>))}

RECURSIVE BuiltConc(_)
BuiltConc(n) ==
    IF n = 0 THEN {Pipeline_alloc(0, 0)}
    ELSE LET prev == BuiltConc(n - 1)
         IN prev \cup {append_stage(lut, stage) : lut \in prev, stage \in ConcCatalog}

InitConc == \E lut \in BuiltConc(MaxConcStages) : InitWith(lut)

NextConc ==
    \E e \in Callers : Start(e, ConcInLens, ConcOutLens) \/ Step(e) \/ Finish(e) \/ Return(e)

SpecConc == InitConc /\ [][NextConc]_vars

\* ------------------------------------------------- one call, run alone
\* The scratch storage and phase after the first k stages of a chain, started
\* from the buffers init: the loop of lut_eval_16 / lut_eval_float by itself.
RECURSIVE PureRun(_, _, _)
PureRun(elements, k, init) ==
    IF k = 0 THEN [panic |-> FALSE, phase |-> 0, st |-> init]
    ELSE LET prev == PureRun(elements, k - 1, init)
             next_phase == NextPhase(prev.phase)
             r == StageEvalFn(elements[k], prev.st[prev.phase + 1],
                              prev.st[next_phase + 1])
         IN IF prev.panic \/ r.panic
            THEN [panic |-> TRUE, phase |-> prev.phase, st |-> prev.st]
            ELSE [panic |-> FALSE, phase |-> next_phase,
                  st |-> [prev.st EXCEPT ![next_phase + 1] = r.out]]

\* The buffers a call starts the chain with.
PureStart(kind, input) ==
    IF kind = "float" THEN Ok(copy_float_slice(input, ZeroBuf))
    ELSE from_16_to_float(input, ZeroBuf)

\* Outcome of pipeline.eval_float / eval_16 on input and an output buffer of
\* outlen entries.
PureCall(lut, kind, input, outlen) ==
    LET s0 == PureStart(kind, input)
        run == PureRun(lut.elements, Len(lut.elements), <<s0.out, ZeroBuf>>)
        final == run.st[run.phase + 1]
        r == IF kind = "float"
             THEN Ok(copy_float_slice(final, OutBuf(outlen)))
             ELSE from_float_to_16(final, OutBuf(outlen), lut.output_channels)
    IN IF s0.panic THEN [pc |-> "panicked", output |-> OutBuf(outlen)]
       ELSE IF run.panic THEN [pc |-> "panicked", output |-> OutBuf(outlen)]
       ELSE [pc |-> IF r.panic THEN "panicked" ELSE "done", output |-> r.out]

\* ------------------------------------------------------------------ claims
Stages(p) == {P(p).elements[i] : i \in 1..Len(P(p).elements)}

\* C1: whenever a pipeline reached by alloc, prepend_stage, append_stage and
\* concat has a non-empty chain, its input_channels is the first stage's
\* input_channels and its output_channels is the last stage's output_channels.
C1_ArityInvariant ==
    \A p \in PipeIds :
        (Has(p) /\ P(p).elements # <<>>) =>
            /\ P(p).input_channels = P(p).elements[1].input_channels
            /\ P(p).output_channels =
                   P(p).elements[Len(P(p).elements)].output_channels

C1_Witness ==
    /\ ret.op = "prepend_stage" /\ ret.p = "lut"
    /\ Len(P("lut").elements) = 2
    /\ P("lut").elements[1].input_channels # P("lut").elements[2].input_channels
    /\ P("lut").elements[1].output_channels # P("lut").elements[2].output_channels

C3_AllocContract ==
    ret.op = "alloc" =>
        /\ ret.panic <=> (ret.ic >= MAX_CHANNELS \/ ret.oc >= MAX_CHANNELS)
        /\ ret.panic => ~Has(ret.p)
        /\ ~ret.panic =>
              /\ Has(ret.p)
              /\ P(ret.p).elements = <<>>
              /\ P(ret.p).input_channels = ret.ic
              /\ P(ret.p).output_channels = ret.oc

C3_Witness ==
    /\ ret.op = "alloc" /\ ret.panic
    /\ ret.ic = MAX_CHANNELS /\ ret.oc = 0

\* C4: no pipeline ever holds a stage whose input_channels or output_channels
\* exceeds the scratch capacity MAX_STAGE_CHANNELS (such a stage is rejected
\* at construction), so that no evaluation indexes past a scratch buffer.
C4_ScratchCapacityEnforced ==
    \A p \in PipeIds :
        Has(p) => \A stage \in Stages(p) :
                      /\ stage.input_channels <= MAX_STAGE_CHANNELS
                      /\ stage.output_channels <= MAX_STAGE_CHANNELS

\* C10: every factory-built stage carries a payload of the size of its arity:
\* a Matrix has output_channels x input_channels coefficients and an offset
\* that is absent or of length output_channels, a curve set has one curve per
\* channel.
C10_PayloadShape ==
    \A p \in PipeIds :
        Has(p) => \A stage \in Stages(p) :
            /\ stage.data.kind = "Matrix" =>
                  /\ Len(stage.data.matrix) =
                         stage.output_channels * stage.input_channels
                  /\ stage.data.offset.some =>
                         Len(stage.data.offset.v) = stage.output_channels
            /\ stage.data.kind = "Curves" =>
                  Len(stage.data.curves) = stage.input_channels

\* The final buffer of a call whose chain has run.
Final(e) == storage[ScratchOf(e)][calls[e].phase + 1]

\* C5: eval_float puts the caller's input, truncated or zero-padded to the
\* scratch capacity, in the initial buffer, and after the chain copies exactly
\* the leading N = pipeline.output_channels entries of the final buffer to the
\* caller's output (the rest of the output is left as it was).
C5_FloatCopiesLeadingN ==
    \A e \in Callers :
        LET c == calls[e]
        IN /\ (c.kind = "float" /\ c.pc = "run" /\ c.k = 0) =>
                 storage[ScratchOf(e)][1] =
                     [i \in 1..Cap |->
                         IF i <= Len(c.input) THEN c.input[i] ELSE 0]
           /\ (c.kind = "float" /\ c.pc = "done") =>
                 \A i \in 1..Len(c.output) :
                     c.output[i] = IF i <= Lut.output_channels
                                   THEN Final(e)[i] ELSE OutInit

\* A stage of call e has just run.
Stepped(e) ==
    /\ calls[e].pc = "run" /\ calls'[e].pc = "run"
    /\ calls'[e].k = calls[e].k + 1

\* C6: one evaluation of a factory-built stage changes nothing of its output
\* buffer past the leading output_channels entries, and its result does not
\* depend on input entries at or past input_channels.
C6_StageFrame ==
    [][\A e \in Callers :
         Stepped(e) =>
            LET stage == Lut.elements[calls'[e].k]
                src == storage[ScratchOf(e)][calls[e].phase + 1]
                old == storage[ScratchOf(e)][calls'[e].phase + 1]
                new == storage'[ScratchOf(e)][calls'[e].phase + 1]
                masked == [i \in 1..Cap |->
                              IF i <= stage.input_channels THEN src[i] ELSE 0]
            IN /\ \A i \in 1..Cap :
                     i > stage.output_channels => new[i] = old[i]
               /\ new = StageEvalFn(stage, masked, old).out
      ]_vars

\* Stage::new_identity(channels) replaced by Stage::new_identity_curves(channels).
ReplaceIdentity(lut) ==
    [lut EXCEPT !.elements =
        [i \in 1..Len(lut.elements) |->
            IF lut.elements[i].ty = "Identity"
            THEN new_identity_curves(lut.elements[i].input_channels)
            ELSE lut.elements[i]]]

\* C7: with every new_identity stage of the pipeline replaced by the
\* new_identity_curves stage of the same channel count, eval_float and eval_16
\* give the same output, entry by entry.
C7_IdentityStagesEquivalent ==
    \A e \in Callers :
        calls[e].pc \in {"done", "panicked"} =>
            LET alt == PureCall(ReplaceIdentity(Lut), calls[e].kind,
                                calls[e].input, Len(calls[e].output))
            IN calls[e].pc = alt.pc /\ calls[e].output = alt.output

\* C8: whatever the interleaving of the calls on one pipeline, each call's
\* scratch storage, phase and outcome are those of the same call run alone on
\* its own input: nothing a call writes reaches another or a later call.
C8_NoInterference ==
    \A e \in Callers :
        LET c == calls[e]
            s0 == PureStart(c.kind, c.input)
            run == PureRun(Lut.elements, c.k, <<s0.out, ZeroBuf>>)
            alone == PureCall(Lut, c.kind, c.input, Len(c.output))
        IN /\ c.pc = "run" =>
                 /\ ~s0.panic /\ ~run.panic
                 /\ storage[ScratchOf(e)] = run.st
                 /\ c.phase = run.phase
                 /\ c.output = OutBuf(Len(c.output))
           /\ c.pc \in {"done", "panicked"} =>
                 c.pc = alone.pc /\ c.output = alone.output

C8_Witness ==
    /\ calls[1].pc = "done" /\ calls[1].k = 1
    /\ calls[2].pc = "run" /\ calls[2].k = 1
    /\ calls[1].input # calls[2].input
    /\ storage[1] # storage[2]
    /\ storage[2][2] # ZeroBuf

\* C9: the stages run once each in insertion order; the k-th one reads buffer
\* (k-1) mod 2, buffer 0 holding the decoded input, and writes only buffer
\* k mod 2; the result is taken from buffer n mod 2; with no stage the input
\* passes through unchanged.
C9_ChainOrder ==
    [][\A e \in Callers :
         LET c == calls[e]
             d == calls'[e]
             f == ScratchOf(e)
             n == Len(Lut.elements)
         IN /\ (c.pc = "idle" /\ d.pc = "run") =>
                  /\ d.k = 0 /\ d.phase = 0
                  /\ storage'[f] = <<[i \in 1..Cap |->
                                        IF i > Len(d.input) THEN 0
                                        ELSE IF d.kind = "float" THEN d.input[i]
                                        ELSE d.input[i] * Res],
                                     ZeroBuf>>
            /\ (c.pc = "run" /\ d.pc = "run") =>
                  LET r == StageEvalFn(Lut.elements[c.k + 1],
                                       storage[f][(c.k % 2) + 1],
                                       storage[f][((c.k + 1) % 2) + 1])
                  IN /\ c.k < n
                     /\ d.k = c.k + 1
                     /\ c.phase = c.k % 2
                     /\ d.phase = (c.k + 1) % 2
                     /\ ~r.panic
                     /\ storage'[f][((c.k + 1) % 2) + 1] = r.out
                     /\ storage'[f][(c.k % 2) + 1] = storage[f][(c.k % 2) + 1]
            /\ (c.pc = "run" /\ d.pc = "done") =>
                  LET final == storage[f][(n % 2) + 1]
                  IN /\ c.k = n /\ d.k = n
                     /\ c.phase = n % 2
                     /\ storage'[f] = storage[f]
                     /\ d.output =
                          IF c.kind = "float"
                          THEN copy_float_slice(final, c.output)
                          ELSE from_float_to_16(final, c.output,
                                                Lut.output_channels).out
                     /\ n = 0 =>
                          \A i \in 1..Len(d.output) :
                              (/\ i <= Len(c.input)
                               /\ c.kind = "16" => i <= Lut.output_channels)
                              => d.output[i] = c.input[i]
      ]_vars

C9_Witness ==
    /\ calls[1].pc = "done" /\ calls[1].k = 2 /\ calls[1].phase = 0
    /\ Lut.elements[1] # Lut.elements[2]
    /\ storage[1][1] # storage[1][2]
    /\ storage[1][2] # ZeroBuf
    /\ Len(calls[1].output) > 0
    /\ calls[1].output[1] # OutInit

====
